---- MODULE Spec2Model ----
(***************************************************************************)
(* A model of the Telegram message forwarder (src/main.py): the route      *)
(* filter (MessageFilter), the text modifier (MessageModifier), the        *)
(* per-message pipeline of an account session (TelegramAccount) and the    *)
(* fleet coordinator (MultiAccountForwarder).                              *)
(*                                                                         *)
(* Texts are sequences of one-character strings.  A JSON object is a       *)
(* function from its field names to its values, so an absent field is a    *)
(* name outside its DOMAIN.                                                *)
(***************************************************************************)
EXTENDS Integers, Sequences, FiniteSets, TLC

VARIABLES
    fMapping,   \* filter probe: the mapping a MessageFilter is built from
    fMessage,   \* filter probe: the message given to should_forward
    fResult,    \* filter probe: "none", or what should_forward returned
    dProbe,     \* destination probe: a destination, normalized and resolved
    event,      \* an event of a source chat and the clients it is dispatched to
    race,       \* two reload_config tasks running on the event loop together
    disk,       \* the configuration file at CONFIG_PATH
    config,     \* MultiAccountForwarder.config
    objs,       \* every TelegramAccount object built so far
    accounts,   \* MultiAccountForwarder.accounts: the objects it holds, in order
    clients,    \* every TelegramClient object created so far
    fleet,      \* the coordinator task: start() / reload_config() in progress
    task,       \* the handle_message task in flight, or the last one finished
    admin,      \* the handle_admin_commands task in flight, or the last finished
    reloads,    \* number of reload_config calls so far
    lastReload, \* how the last reload_config call ended
    edits,      \* number of times the configuration file was changed
    boot        \* the configuration version the forwarder was constructed from

vars == <<fMapping, fMessage, fResult, dProbe, event, race, disk, config, objs, accounts, clients,
          fleet, task, admin, reloads, lastReload, edits, boot>>

fvars == <<fMapping, fMessage, fResult, dProbe, event, race>>
mvars == <<disk, config, objs, accounts, clients, fleet, task, admin, reloads,
           lastReload, edits, boot>>

----------------------------------------------------------------------------
(* Characters and texts *)

\* str.lower() on the characters the model uses
Lower(c) ==
    CASE c = "B" -> "b"
      [] c = "U" -> "u"
      [] c = "Y" -> "y"
      [] c = "S" -> "s"
      [] c = "E" -> "e"
      [] c = "L" -> "l"
      [] OTHER -> c

lower(t) == [i \in 1..Len(t) |-> Lower(t[i])]

\* Python's "needle in haystack" on strings
Contains(hay, needle) ==
    \E i \in 1..(Len(hay) - Len(needle) + 1) :
        \A k \in 1..Len(needle) : hay[i + k - 1] = needle[k]

RECURSIVE Concat(_)
Concat(ws) == IF ws = <<>> THEN <<>> ELSE Head(ws) \o Concat(Tail(ws))

\* dict.get(key, default)
Get(m, k, d) == IF k \in DOMAIN m THEN m[k] ELSE d

Digits == {"0", "1", "2", "3", "4", "5", "6", "7", "8", "9"}
Spaces == {" "}

DigitVal(c) ==
    CASE c = "0" -> 0 [] c = "1" -> 1 [] c = "2" -> 2 [] c = "3" -> 3
      [] c = "4" -> 4 [] c = "5" -> 5 [] c = "6" -> 6 [] c = "7" -> 7
      [] c = "8" -> 8 [] c = "9" -> 9

\* the value of a run of decimal digits (float(num) / int(s) on digits)
RECURSIVE ToNum(_)
ToNum(ds) ==
    IF ds = <<>> THEN 0
    ELSE 10 * ToNum(SubSeq(ds, 1, Len(ds) - 1)) + DigitVal(ds[Len(ds)])

----------------------------------------------------------------------------
(* JSON numbers.  A threshold of the configuration is a JSON value: a      *)
(* number, or (a configuration slip) a string; float('inf') is the default *)
(* of number_threshold_max.                                                *)

Num(v) == [tag |-> "num", v |-> v]
StrVal == [tag |-> "str", v |-> 0]
Inf == [tag |-> "inf", v |-> 0]

\* A pattern of number_regex_patterns: lit stands for the regular
\* expression  lit\s+(\d+(?:\.\d+)?)  (texts of the model hold no ".").
Pattern(lit) == [kind |-> "capture", lit |-> lit]

\* The same expression written without its group,  lit\s+\d+ : findall
\* yields the whole match ("spend 50"), which float() does not accept.
Uncaptured(lit) == [kind |-> "whole", lit |-> lit]

\* A string that is no regular expression, such as "(" : re.compile raises
Malformed == [kind |-> "malformed", lit |-> <<>>]
DefaultPattern == Pattern(<<"s", "p", "e", "n", "d">>)

----------------------------------------------------------------------------
(* MessageFilter *)

\* __init__, line 75: re.compile raises re.error on a malformed pattern
MessageFilterRaises(mapping_config) ==
    LET patterns == Get(mapping_config, "number_regex_patterns", <<DefaultPattern>>)
    IN \E i \in 1..Len(patterns) : patterns[i].kind = "malformed"

MessageFilter(mapping_config) ==
    [keyword_filtering_enabled |->
         Get(mapping_config, "keyword_filtering_enabled", FALSE),
     keywords_include |-> Get(mapping_config, "keywords_include", <<>>),
     keywords_exclude |-> Get(mapping_config, "keywords_exclude", <<>>),
     number_threshold_enabled |->
         Get(mapping_config, "number_threshold_enabled", FALSE),
     number_threshold_min |-> Get(mapping_config, "number_threshold_min", Num(0)),
     number_threshold_max |-> Get(mapping_config, "number_threshold_max", Inf),
     number_regex_patterns |->
         Get(mapping_config, "number_regex_patterns", <<DefaultPattern>>)]

\* message.text if present, else message.caption, else ""
get_message_text(message) ==
    IF message.text # <<>> THEN message.text
    ELSE IF message.caption # <<>> THEN message.caption
    ELSE <<>>

AnyKeyword(keywords, text_lower) ==
    \E i \in 1..Len(keywords) : Contains(text_lower, lower(keywords[i]))

\* check_keywords with the keywords compared as written (no keyword.lower())
check_keywords_as_written(self, text) ==
    LET text_lower == lower(text)
        hit(keywords) == \E i \in 1..Len(keywords) : Contains(text_lower, keywords[i])
    IN IF self.keywords_exclude # <<>> /\ hit(self.keywords_exclude) THEN FALSE
       ELSE IF self.keywords_include # <<>> /\ ~hit(self.keywords_include) THEN FALSE
       ELSE TRUE

\* check_keywords with the inclusion list consulted first
check_keywords_include_first(self, text) ==
    LET text_lower == lower(text) IN
    IF self.keywords_include # <<>> /\ AnyKeyword(self.keywords_include, text_lower)
    THEN TRUE
    ELSE IF self.keywords_exclude # <<>>
            /\ AnyKeyword(self.keywords_exclude, text_lower)
    THEN FALSE
    ELSE self.keywords_include = <<>>

check_keywords(self, text) ==
    LET text_lower == lower(text) IN
    IF self.keywords_exclude # <<>> /\ AnyKeyword(self.keywords_exclude, text_lower)
    THEN FALSE
    ELSE IF self.keywords_include # <<>>
            /\ ~AnyKeyword(self.keywords_include, text_lower)
    THEN FALSE
    ELSE TRUE

\* text.replace('*', '')
RECURSIVE RemoveStars(_)
RemoveStars(t) ==
    IF t = <<>> THEN <<>>
    ELSE IF Head(t) = "*" THEN RemoveStars(Tail(t))
    ELSE <<Head(t)>> \o RemoveStars(Tail(t))

\* the first index at or after i whose character is not in cls
RECURSIVE RunEnd(_, _, _)
RunEnd(t, i, cls) ==
    IF i <= Len(t) /\ t[i] \in cls THEN RunEnd(t, i + 1, cls) ELSE i

LitAt(t, i, lit) ==
    /\ i + Len(lit) - 1 <= Len(t)
    /\ \A k \in 1..Len(lit) : Lower(t[i + k - 1]) = Lower(lit[k])

\* re.findall(pattern, t, re.IGNORECASE): the captured digit runs of the
\* non-overlapping matches, scanning from the left
RECURSIVE FindAll(_, _, _)
FindAll(t, i, lit) ==
    IF i > Len(t) THEN <<>>
    ELSE LET a == i + Len(lit)
             b == RunEnd(t, a, Spaces)
             c == RunEnd(t, b, Digits)
         IN IF LitAt(t, i, lit) /\ b > a /\ c > b
            THEN <<SubSeq(t, b, c - 1)>> \o FindAll(t, c, lit)
            ELSE FindAll(t, i + 1, lit)

RECURSIVE MapToNum(_)
MapToNum(matches) ==
    IF matches = <<>> THEN <<>>
    ELSE <<ToNum(Head(matches))>> \o MapToNum(Tail(matches))

\* lines 106-119: a pattern whose first match float() refuses adds nothing
\* (the except clause of line 118), the loop goes on with the next pattern
RECURSIVE ExtractFrom(_, _)
ExtractFrom(patterns, text) ==
    IF patterns = <<>> THEN <<>>
    ELSE LET cleaned_text == RemoveStars(text)
             matches == FindAll(cleaned_text, 1, Head(patterns).lit)
         IN IF Head(patterns).kind = "whole"
            THEN ExtractFrom(Tail(patterns), text)
            ELSE MapToNum(matches) \o ExtractFrom(Tail(patterns), text)

extract_numbers(self, text) == ExtractFrom(self.number_regex_patterns, lower(text))

\* the range test with the bounds excluded
WithinRangeExclusive(self, num) ==
    /\ self.number_threshold_min.v < num
    /\ \/ self.number_threshold_max.tag = "inf"
       \/ num < self.number_threshold_max.v

\* number_threshold_min <= num <= number_threshold_max, both numbers
WithinRange(self, num) ==
    /\ self.number_threshold_min.v <= num
    /\ \/ self.number_threshold_max.tag = "inf"
       \/ num <= self.number_threshold_max.v

KeywordsPass(self, text) ==
    self.keyword_filtering_enabled => check_keywords(self, text)

\* should_forward raises TypeError when the chained comparison meets a
\* threshold that is a string: at the first number when the minimum is one,
\* at the first number not below the minimum when the maximum is one.
should_forward_raises(self, message) ==
    LET text == get_message_text(message)
        numbers == extract_numbers(self, text)
    IN /\ KeywordsPass(self, text)
       /\ self.number_threshold_enabled
       /\ numbers # <<>>
       /\ \/ self.number_threshold_min.tag = "str"
          \/ /\ self.number_threshold_max.tag = "str"
             /\ \E i \in 1..Len(numbers) : self.number_threshold_min.v <= numbers[i]

should_forward(self, message) ==
    LET text == get_message_text(message) IN
    IF self.keyword_filtering_enabled /\ ~check_keywords(self, text) THEN FALSE
    ELSE IF self.number_threshold_enabled
    THEN LET numbers == extract_numbers(self, text) IN
         IF numbers = <<>> THEN FALSE
         ELSE \E i \in 1..Len(numbers) : WithinRange(self, numbers[i])
    ELSE TRUE

----------------------------------------------------------------------------
(* The filter probe: should_forward applied to every message and mapping   *)
(* of a bounded set.                                                       *)

MaxWords == 3

Buy == <<"b", "u", "y">>
BUY == <<"B", "U", "Y">>
Sell == <<"s", "e", "l", "l">>
SELL == <<"S", "E", "L", "L">>
SellCap == <<"S", "e", "l", "l">>
Spend == <<"s", "p", "e", "n", "d">> \o <<" ">>

Words == {Buy, SELL, Spend, <<"5", "0">>, <<"7">>, <<"*">>}

WordSeqs == UNION {[1..n -> Words] : n \in 0..MaxWords}
Texts == {Concat(ws) : ws \in WordSeqs}

TextMessage(t) == [text |-> t, caption |-> <<>>]
CaptionMessage(t) == [text |-> <<>>, caption |-> t]

ProbeMessages ==
    {TextMessage(t) : t \in Texts} \cup {CaptionMessage(w) : w \in Words}

\* an optional field of a JSON object: absent, or one of the values
Absent == <<>>
Field(name, values) == {Absent} \cup {name :> v : v \in values}

ProbeMappings ==
    {kf @@ ki @@ ke @@ nf @@ lo @@ hi @@ pt :
        kf \in Field("keyword_filtering_enabled", {TRUE}),
        ki \in Field("keywords_include", {<<BUY>>, <<Sell, <<"7">>>>}),
        ke \in Field("keywords_exclude", {<<SellCap>>}),
        nf \in Field("number_threshold_enabled", {TRUE}),
        lo \in Field("number_threshold_min", {Num(50), Num(60)}),
        hi \in Field("number_threshold_max", {Num(50)}),
        pt \in Field("number_regex_patterns",
                     {<<Pattern(Buy), Pattern(<<"S", "p", "e", "n", "d">>)>>})}

\* mappings whose patterns hold one that is malformed or captures no number
PatternLists ==
    {<<Malformed, Pattern(Buy)>>, <<Pattern(Buy), Malformed>>,
     <<Uncaptured(DefaultPattern.lit), Pattern(Buy)>>,
     <<Pattern(Buy), Uncaptured(DefaultPattern.lit)>>}

FaultyMappings ==
    {kf @@ ki @@ lo @@ hi @@ ("number_threshold_enabled" :> TRUE)
        @@ ("number_regex_patterns" :> pt) :
        kf \in Field("keyword_filtering_enabled", {TRUE}),
        ki \in Field("keywords_include", {<<BUY>>}),
        lo \in Field("number_threshold_min", {Num(50), Num(60)}),
        hi \in Field("number_threshold_max", {Num(50)}),
        pt \in PatternLists}

FilterInit ==
    /\ fMapping \in ProbeMappings
    /\ fMessage \in ProbeMessages
    /\ fResult = "none"
    /\ dProbe = [pc |-> "idle", destination |-> [str |-> FALSE, n |-> 0, s |-> <<>>],
                 normalized |-> [str |-> FALSE, n |-> 0, s |-> <<>>], peer |-> 0]

\* MessageFilter(mapping).should_forward(message)
Evaluate ==
    /\ fResult = "none"
    /\ fResult' = IF MessageFilterRaises(fMapping) THEN "raised"
                  ELSE IF should_forward(MessageFilter(fMapping), fMessage)
                  THEN "forward" ELSE "reject"
    /\ UNCHANGED <<fMapping, fMessage, dProbe, event, race>>

----------------------------------------------------------------------------
(* Chat identifiers: a JSON integer or a JSON string *)

IntId(n) == [str |-> FALSE, n |-> n, s |-> <<>>]
StrId(s) == [str |-> TRUE, n |-> 0, s |-> s]

\* str.isdigit()
IsDigit(s) == s # <<>> /\ \A i \in 1..Len(s) : s[i] \in Digits

\* whether int(s) accepts s: an optional minus sign and decimal digits
IsIntLiteral(s) ==
    \/ IsDigit(s)
    \/ s # <<>> /\ Head(s) = "-" /\ IsDigit(Tail(s))

\* int(s), for s that int() accepts
ParseInt(s) == IF Head(s) = "-" THEN 0 - ToNum(Tail(s)) ELSE ToNum(s)

StartsWith(s, prefix) ==
    Len(s) >= Len(prefix) /\ SubSeq(s, 1, Len(prefix)) = prefix

DigitChar(d) ==
    CASE d = 0 -> "0" [] d = 1 -> "1" [] d = 2 -> "2" [] d = 3 -> "3"
      [] d = 4 -> "4" [] d = 5 -> "5" [] d = 6 -> "6" [] d = 7 -> "7"
      [] d = 8 -> "8" [] d = 9 -> "9"

\* str(n) for n >= 0
RECURSIVE NatToStr(_)
NatToStr(n) ==
    IF n < 10 THEN <<DigitChar(n)>>
    ELSE NatToStr(n \div 10) \o <<DigitChar(n % 10)>>

Abs(n) == IF n < 0 THEN 0 - n ELSE n

\* s.replace(old, '', 1): s without the first occurrence of old
RECURSIVE RemoveFirst(_, _)
RemoveFirst(s, old) ==
    IF Len(s) < Len(old) THEN s
    ELSE IF StartsWith(s, old) THEN SubSeq(s, Len(old) + 1, Len(s))
    ELSE <<Head(s)>> \o RemoveFirst(Tail(s), old)

Minus100 == <<"-", "1", "0", "0">>

\* __init__, lines 204-207: a digit string becomes an integer
ToInt(value) ==
    IF value.str /\ IsDigit(value.s) THEN IntId(ToNum(value.s)) ELSE value

\* forward_message, lines 305-313: the destination as given to the first send
NormalizeRaises(destination) ==
    /\ destination.str
    /\ IF StartsWith(destination.s, Minus100)
       THEN ~IsIntLiteral(destination.s)
       ELSE /\ StartsWith(destination.s, <<"-">>)
            /\ ~IsIntLiteral(Minus100 \o Tail(destination.s))

\* the normalization without the supergroup marker put in front
NormalizeKeepsGroupId(destination) ==
    IF ~destination.str THEN destination
    ELSE IF IsIntLiteral(destination.s) THEN IntId(ParseInt(destination.s))
    ELSE destination

Normalize(destination) ==
    IF ~destination.str THEN destination
    ELSE IF StartsWith(destination.s, Minus100)
    THEN IntId(ParseInt(destination.s))
    ELSE IF StartsWith(destination.s, <<"-">>)
    THEN IntId(ParseInt(Minus100 \o Tail(destination.s)))
    ELSE IF IsDigit(destination.s) THEN IntId(ParseInt(destination.s))
    ELSE destination

\* forward_message, line 323: int(str(abs(destination)).replace('100', '', 1))
PeerDigits(destination) == RemoveFirst(NatToStr(Abs(destination.n)), <<"1", "0", "0">>)

\* abs() of a string raises TypeError, int('') raises ValueError
ChannelIdRaises(destination) ==
    destination.str \/ PeerDigits(destination) = <<>>

channel_id(destination) == ToNum(PeerDigits(destination))

\* what send_message is addressed to: the destination, or PeerChannel(id)
Direct(destination) == [peer |-> FALSE, id |-> destination]
PeerChannel(id) == [peer |-> TRUE, id |-> IntId(id)]

----------------------------------------------------------------------------
(* The destination probe: the destination of a mapping as the configuration *)
(* writes it, as the route holds it, as forward_message normalizes it and   *)
(* as the retry resolves it to a channel identifier.                        *)

MaxDestLen == 5

DestChars == {"-", "1", "0", "7"}
DestStrings == UNION {[1..n -> DestChars] : n \in 0..MaxDestLen}

\* the destinations a configuration may hold: strings, and the integers
\* the integer literals among them denote
ProbeDestinations ==
    {StrId(s) : s \in DestStrings}
        \cup {IntId(ParseInt(s)) : s \in {x \in DestStrings : IsIntLiteral(x)}}

DestProbe(pc, destination, normalized, peer) ==
    [pc |-> pc, destination |-> destination, normalized |-> normalized,
     peer |-> peer]

DestProbeIdle == DestProbe("idle", IntId(0), IntId(0), 0)

DestInit == \E d \in ProbeDestinations : dProbe = DestProbe("start", d, IntId(0), 0)

\* __init__ (lines 204-207), then forward_message up to the first send
NormalizeDestination ==
    /\ dProbe.pc = "start"
    /\ LET destination == ToInt(dProbe.destination) IN
       dProbe' = IF NormalizeRaises(destination)
                 THEN [dProbe EXCEPT !.pc = "raised"]
                 ELSE [dProbe EXCEPT !.pc = "normalized",
                                     !.normalized = Normalize(destination)]
    /\ UNCHANGED <<fMapping, fMessage, fResult, event, race>>

\* forward_message, lines 321-324: the first send has failed
ResolvePeer ==
    /\ dProbe.pc = "normalized"
    /\ dProbe' = IF ChannelIdRaises(dProbe.normalized)
                 THEN [dProbe EXCEPT !.pc = "peerRaised"]
                 ELSE [dProbe EXCEPT !.pc = "peer",
                                     !.peer = channel_id(dProbe.normalized)]
    /\ UNCHANGED <<fMapping, fMessage, fResult, event, race>>

----------------------------------------------------------------------------
(* MessageModifier *)

MessageModifier(mapping_config) ==
    [enabled |-> Get(mapping_config, "modification_enabled", FALSE),
     prefix_enabled |-> Get(mapping_config, "prefix_enabled", FALSE),
     suffix_enabled |-> Get(mapping_config, "suffix_enabled", FALSE),
     prefix |-> Get(mapping_config, "prefix", <<>>),
     suffix |-> Get(mapping_config, "suffix", <<>>)]

modify_message(self, message_text) ==
    IF ~self.enabled THEN message_text
    ELSE LET withPrefix ==
                 IF self.prefix_enabled /\ self.prefix # <<>>
                 THEN self.prefix \o <<"\n">> \o message_text
                 ELSE message_text
         IN IF self.suffix_enabled /\ self.suffix # <<>>
            THEN withPrefix \o <<"\n">> \o self.suffix
            ELSE withPrefix

----------------------------------------------------------------------------
(* The configuration file: the versions an operator may write to it *)

Route(source, destination) ==
    ("source" :> source) @@ ("destination" :> destination)

KeywordRoute(source, destination, keywords) ==
    Route(source, destination)
        @@ ("keyword_filtering_enabled" :> TRUE)
        @@ ("keywords_include" :> keywords)

Chat100 == IntId(100)
Chat200 == IntId(200)
Chat100Str == StrId(<<"1", "0", "0">>)
Chat200Str == StrId(<<"2", "0", "0">>)

ConfigVersions ==
    << \* 1, 2: the route keyed by integers, keyword filtering on
       [sessions |-> <<"s1">>,
        mappings |-> <<KeywordRoute(Chat100, Chat200, <<Buy>>)>>],
       [sessions |-> <<"s1", "s2">>,
        mappings |-> <<KeywordRoute(Chat100, Chat200, <<Sell>>)>>],
       \* 3, 4: keywords given, keyword_filtering_enabled left out
       [sessions |-> <<"s1">>,
        mappings |-> <<Route(Chat100, Chat200) @@ ("keywords_include" :> <<Buy>>)>>],
       [sessions |-> <<"s1">>,
        mappings |-> <<Route(Chat100, Chat200) @@ ("keywords_include" :> <<Sell>>)>>],
       \* 5, 6: the route keyed by decimal strings
       [sessions |-> <<"s1">>,
        mappings |-> <<KeywordRoute(Chat100Str, Chat200Str, <<Buy>>)>>],
       [sessions |-> <<"s1">>,
        mappings |-> <<KeywordRoute(Chat100Str, Chat200Str, <<Sell>>)>>],
       \* 7: the route disabled
       [sessions |-> <<"s1">>,
        mappings |-> <<KeywordRoute(Chat100, Chat200, <<Buy>>) @@ ("enabled" :> FALSE)>>],
       \* 8: text modification asked for, no filtering
       [sessions |-> <<"s1">>,
        mappings |-> <<Route(Chat100, Chat200)
                         @@ ("modification_enabled" :> TRUE)
                         @@ ("prefix_enabled" :> TRUE)
                         @@ ("prefix" :> <<"A">>)>>],
       \* 9: a threshold written as a string, a destination that is no
       \* number, a basic-group destination and the destination 100
       [sessions |-> <<"s1">>,
        mappings |-> <<Route(Chat100, Chat200)
                         @@ ("number_threshold_enabled" :> TRUE)
                         @@ ("number_threshold_min" :> StrVal),
                       Route(Chat100, StrId(<<"-", "x">>)),
                       Route(Chat100, StrId(<<"-", "7">>)),
                       Route(Chat100, Chat100)>>],
       \* 10: a number pattern that is no regular expression
       [sessions |-> <<"s1">>,
        mappings |-> <<Route(Chat100, Chat200)
                         @@ ("number_threshold_enabled" :> TRUE)
                         @@ ("number_regex_patterns" :> <<Malformed, DefaultPattern>>)>>] >>

NumVersions == Len(ConfigVersions)

\* the versions the forwarder is first started with
BootVersions == {1, 3, 5, 7, 9}

\* disk = 0: the file is unreadable or is not JSON
DiskStates == 0..NumVersions

\* json.load(open(CONFIG_PATH)) raises when the file is unreadable or malformed
LoadRaises(d) == d = 0
Load(d) == ConfigVersions[d]

MainMessages ==
    {TextMessage(Buy), TextMessage(SELL), CaptionMessage(Spend \o <<"7">>)}

----------------------------------------------------------------------------
(* TelegramAccount *)

\* __init__, lines 200-209: the in-memory copy of one mapping
MappingCopy(mapping) ==
    [k \in DOMAIN mapping \cup {"filter"} |->
        IF k = "filter" THEN MessageFilter(mapping)
        ELSE IF k \in {"source", "destination"} THEN ToInt(mapping[k])
        ELSE mapping[k]]

\* __init__, line 201: MessageFilter(mapping) raises
TelegramAccountRaises(cfg) ==
    \E i \in 1..Len(cfg.mappings) : MessageFilterRaises(cfg.mappings[i])

TelegramAccount(session_name, cfg) ==
    [session_name |-> session_name,
     client |-> 0,
     mappings |-> [i \in 1..Len(cfg.mappings) |-> MappingCopy(cfg.mappings[i])]]

\* handle_message, lines 235-241: the first mapping of the file whose
\* source and destination equal (Python ==) those of the route, 0 if none
MatchIndex(new_mappings, mapping) ==
    LET hits == {i \in 1..Len(new_mappings) :
                    /\ new_mappings[i]["source"] = mapping["source"]
                    /\ new_mappings[i]["destination"] = mapping["destination"]}
    IN IF hits = {} THEN 0 ELSE CHOOSE i \in hits : \A j \in hits : i <= j

\* mapping.update(new_mapping) alone: MessageFilter(new_mapping) raised
UpdateMappingKeepFilter(mapping, new_mapping) ==
    [k \in DOMAIN mapping \cup DOMAIN new_mapping |->
        IF k = "filter" THEN mapping[k]
        ELSE IF k \in DOMAIN new_mapping THEN new_mapping[k]
        ELSE mapping[k]]

\* mapping.update(new_mapping); mapping['filter'] = MessageFilter(new_mapping)
UpdateMapping(mapping, new_mapping) ==
    [k \in DOMAIN mapping \cup DOMAIN new_mapping |->
        IF k = "filter" THEN MessageFilter(new_mapping)
        ELSE IF k \in DOMAIN new_mapping THEN new_mapping[k]
        ELSE mapping[k]]

\* an except clause that is missing
CatchesNothing(kind) == FALSE

\* an except clause written for ValueError alone
CatchesValueError(kind) == kind = "ValueError"

\* The except clauses: each catches Exception, so every kind the model raises
InnerCatches(kind) == TRUE
ForwardCatches(kind) == TRUE
HandlerCatches(kind) == TRUE

\* handle_message, lines 230-245: the route's mapping after the re-read
Reread(d, mapping) ==
    IF LoadRaises(d) THEN mapping
    ELSE LET new_mappings == Load(d).mappings
             i == MatchIndex(new_mappings, mapping)
         IN IF i = 0 THEN mapping
            ELSE IF MessageFilterRaises(new_mappings[i])
            THEN UpdateMappingKeepFilter(mapping, new_mappings[i])
            ELSE UpdateMapping(mapping, new_mappings[i])

\* what the re-read raises: "none", OSError (or JSONDecodeError) from the
\* file, re.error from the filter of the matching mapping
RereadRaises(d, mapping) ==
    IF LoadRaises(d) THEN "OSError"
    ELSE LET new_mappings == Load(d).mappings
             i == MatchIndex(new_mappings, mapping)
         IN IF i # 0 /\ MessageFilterRaises(new_mappings[i]) THEN "re.error"
            ELSE "none"

\* how many times the operator acts: file edits plus /reload commands
MaxOps == 2

IdleTask ==
    [pc |-> "idle", client |-> 0, acct |-> 0, route |-> 0,
     message |-> TextMessage(<<>>), before |-> <<>>, used |-> <<>>,
     read |-> 0, after |-> 0, nth |-> 0,
     verdict |-> "none", target |-> Direct(IntId(0)),
     first |-> 0, firstFailed |-> FALSE, second |-> 0, peerSends |-> 0,
     out |-> <<>>, escaped |-> FALSE]

\* an exception reaching the except clause of handle_message (line 269)
Raised(t, kind) ==
    IF HandlerCatches(kind)
    THEN [t EXCEPT !.pc = "done", !.verdict = "error"]
    ELSE [t EXCEPT !.pc = "done", !.verdict = "error", !.escaped = TRUE]

\* an exception reaching the outer except clause of forward_message (line 331);
\* when caught, forward_message returns and handle_message ends normally
ForwardRaised(t, kind) ==
    IF ForwardCatches(kind)
    THEN [t EXCEPT !.pc = "done", !.verdict = "failed"]
    ELSE Raised(t, kind)

\* the configuration version the last reload_config installed, when it has
\* completed and succeeded; 0 otherwise
ReloadedTo == IF fleet.pc = "idle" /\ lastReload = "ok" THEN config ELSE 0

\* the enabled check left out
RouteAlwaysEnabled(mapping) == TRUE

\* handle_message, line 251: mapping.get('enabled', True)
RouteEnabled(mapping) == Get(mapping, "enabled", TRUE)

\* the route updated in every account, as if __init__ kept the mapping of
\* the configuration itself instead of a copy of it
UpdateRouteShared(a, k, cur) ==
    [b \in 1..Len(objs) |->
        IF k <= Len(objs[b].mappings) THEN [objs[b] EXCEPT !.mappings[k] = cur]
        ELSE objs[b]]

\* __init__, line 200, and handle_message, lines 239-240: the mapping a
\* handler updates is the account's own copy
UpdateRoute(a, k, cur) == [objs EXCEPT ![a].mappings[k] = cur]

\* handle_message up to its first suspension, the await inside
\* forward_message: re-read, update, enabled check, filter, normalization
HandleStart(c, k, message) ==
    LET a == clients[c].acct
        mapping == objs[a].mappings[k]
        raised == RereadRaises(disk, mapping)
        cur == Reread(disk, mapping)
        t0 == [IdleTask EXCEPT !.client = c, !.acct = a, !.route = k,
                               !.message = message, !.before = mapping,
                               !.used = cur, !.read = disk,
                               !.after = ReloadedTo, !.nth = reloads]
    IN IF raised # "none" /\ ~InnerCatches(raised)
       THEN [objs |-> UpdateRoute(a, k, cur),
             task |-> Raised(t0, raised)]
       ELSE [objs |-> UpdateRoute(a, k, cur),
             task |->
                IF ~RouteEnabled(cur)
                THEN [t0 EXCEPT !.pc = "done", !.verdict = "disabled"]
                ELSE IF should_forward_raises(cur["filter"], message)
                THEN Raised(t0, "TypeError")
                ELSE IF ~should_forward(cur["filter"], message)
                THEN [t0 EXCEPT !.pc = "done", !.verdict = "filtered"]
                ELSE IF NormalizeRaises(cur["destination"])
                THEN ForwardRaised(t0, "ValueError")
                ELSE [t0 EXCEPT !.pc = "send1", !.verdict = "passed",
                                !.target = Direct(Normalize(cur["destination"]))]]

\* An event of a subscribed source chat arrives at a connected client
handle_message(c, k, message) ==
    /\ task.pc = "idle" /\ admin.pc # "done"
    /\ clients[c].connected /\ clients[c].handlers
    /\ LET r == HandleStart(c, k, message)
       IN objs' = r.objs /\ task' = r.task
    /\ UNCHANGED <<fvars, boot, admin, disk, config, accounts, clients, fleet, reloads, lastReload, edits>>

Delivery(t) == [to |-> t.target, message |-> t.message]

\* the first send succeeds and control falls into the retry all the same
FirstSendOkThenRetry ==
    /\ task.pc = "send1" /\ admin.pc # "done"
    /\ clients[task.client].connected
    /\ ~ChannelIdRaises(task.target.id)
    /\ task' = [task EXCEPT !.pc = "send2", !.first = @ + 1,
                            !.out = Append(@, Delivery(task)),
                            !.target = PeerChannel(channel_id(task.target.id))]
    /\ UNCHANGED <<fvars, boot, admin, disk, config, objs, accounts, clients, fleet, reloads, lastReload, edits>>

\* forward_message, lines 316-317: the first send succeeds
FirstSendOk ==
    /\ task.pc = "send1" /\ admin.pc # "done"
    /\ clients[task.client].connected
    /\ task' = [task EXCEPT !.pc = "done", !.verdict = "forwarded",
                            !.first = @ + 1, !.out = Append(@, Delivery(task))]
    /\ UNCHANGED <<fvars, boot, admin, disk, config, objs, accounts, clients, fleet, reloads, lastReload, edits>>

\* forward_message, lines 318-324: the first send fails; the second attempt
\* starts by computing the channel identifier
FirstSendFails ==
    /\ task.pc = "send1" /\ admin.pc # "done"
    /\ LET t1 == [task EXCEPT !.first = @ + 1, !.firstFailed = TRUE,
                              !.second = @ + 1] IN
       task' = IF ChannelIdRaises(task.target.id)
               THEN ForwardRaised(t1, IF task.target.id.str THEN "TypeError"
                                      ELSE "ValueError")
               ELSE [t1 EXCEPT !.pc = "send2",
                               !.target = PeerChannel(channel_id(task.target.id))]
    /\ UNCHANGED <<fvars, boot, admin, disk, config, objs, accounts, clients, fleet, reloads, lastReload, edits>>

\* forward_message, lines 325-326: the send to the channel peer succeeds
PeerSendOk ==
    /\ task.pc = "send2" /\ admin.pc # "done"
    /\ clients[task.client].connected
    /\ task' = [task EXCEPT !.pc = "done", !.verdict = "forwarded",
                            !.peerSends = @ + 1, !.out = Append(@, Delivery(task))]
    /\ UNCHANGED <<fvars, boot, admin, disk, config, objs, accounts, clients, fleet, reloads, lastReload, edits>>

\* forward_message, lines 327-334: the send to the channel peer fails
PeerSendFails ==
    /\ task.pc = "send2" /\ admin.pc # "done"
    /\ task' = ForwardRaised([task EXCEPT !.peerSends = @ + 1], "RPCError")
    /\ UNCHANGED <<fvars, boot, admin, disk, config, objs, accounts, clients, fleet, reloads, lastReload, edits>>

\* The operator edits, removes or corrupts the configuration file.
\* handle_message reads the file in its first step only, so an edit made
\* while it awaits a send is an edit made after it.
EditConfig(d) ==
    /\ task.pc = "idle" /\ admin.pc # "done"
    /\ edits + reloads < MaxOps
    /\ d # disk
    /\ disk' = d
    /\ edits' = edits + 1
    /\ UNCHANGED <<fvars, boot, admin, config, objs, accounts, clients, fleet, task, reloads, lastReload>>

\* handle_message returns; the event's task is gone
Return ==
    /\ task.pc = "done"
    /\ task' = IdleTask
    /\ UNCHANGED <<fvars, boot, admin, disk, config, objs, accounts, clients, fleet, reloads,
                   lastReload, edits>>

----------------------------------------------------------------------------
(* MultiAccountForwarder *)


\* _setup_accounts building the accounts from the configuration held before
StaleAccounts(cfg) ==
    [i \in 1..Len(cfg.sessions) |-> TelegramAccount(cfg.sessions[i], Load(config))]

\* _setup_accounts giving the mappings to the first session alone
PartitionedAccounts(cfg) ==
    [i \in 1..Len(cfg.sessions) |->
        TelegramAccount(cfg.sessions[i],
                        [cfg EXCEPT !.mappings = IF i = 1 THEN @ ELSE <<>>])]

\* _setup_accounts: one TelegramAccount per session name, each built from
\* the whole configuration
NewAccounts(cfg) ==
    [i \in 1..Len(cfg.sessions) |-> TelegramAccount(cfg.sessions[i], cfg)]

\* The coordinator task.  started: the clients this run of start() created,
\* in the order of the accounts; failed: the first step of reload_config
\* that failed; prev: the configuration held when reload_config was entered.
IdleFleet ==
    [pc |-> "idle", todo |-> <<>>, mode |-> "none", new_config |-> 0,
     started |-> <<>>, failed |-> "none", prev |-> 0]

\* The handle_admin_commands task.  replies: what event.respond delivered.
IdleAdmin ==
    [pc |-> "idle", client |-> 0, text |-> "", invoked |-> FALSE,
     failed |-> "none", prev |-> 0, replies |-> <<>>, raised |-> FALSE]

ReloadCommand == "/reload"

\* the texts the handler registered with pattern="/reload" is called for:
\* the pattern is matched at the start of the text
AdminTexts == {ReloadCommand, "/reload now"}

\* start() giving up at the first account that fails to connect
StartAccountAborts(ok) ==
    /\ task.pc # "done" /\ admin.pc # "done"
    /\ fleet.pc = "start" /\ fleet.todo # <<>>
    /\ LET a == Head(fleet.todo) IN
       /\ clients' = Append(clients, [connected |-> ok, handlers |-> ok, acct |-> a])
       /\ objs' = [objs EXCEPT ![a].client = Len(clients) + 1]
    /\ fleet' = [fleet EXCEPT !.todo = IF ok THEN Tail(@) ELSE <<>>,
                              !.started = Append(@, Len(clients) + 1)]
    /\ UNCHANGED <<fvars, boot, admin, disk, config, accounts, task, reloads, lastReload, edits>>

\* start(), one account: account.start() creates a client and connects it;
\* connected, the handlers of every mapping and of /reload are registered;
\* a failure is logged and the loop goes on
StartAccount(ok) ==
    /\ task.pc # "done" /\ admin.pc # "done"
    /\ fleet.pc = "start" /\ fleet.todo # <<>>
    /\ LET a == Head(fleet.todo) IN
       /\ clients' = Append(clients, [connected |-> ok, handlers |-> ok, acct |-> a])
       /\ objs' = [objs EXCEPT ![a].client = Len(clients) + 1]
    /\ fleet' = [fleet EXCEPT !.todo = Tail(@),
                              !.started = Append(@, Len(clients) + 1),
                              !.failed = IF ~ok /\ @ = "none" /\ fleet.mode = "reload"
                                         THEN "start" ELSE @]
    /\ UNCHANGED <<fvars, boot, admin, disk, config, accounts, task, reloads, lastReload, edits>>

\* start() returns: to run(), or to reload_config (lines 487 and 493), which
\* returns to handle_admin_commands, whose next step is the acknowledgement
StartDone ==
    /\ task.pc # "done" /\ admin.pc # "done"
    /\ fleet.pc = "start" /\ fleet.todo = <<>>
    /\ fleet' = IdleFleet
    /\ lastReload' = CASE fleet.mode = "reload" -> "ok"
                        [] fleet.mode = "fallback" -> "reverted"
                        [] OTHER -> lastReload
    /\ admin' = IF fleet.mode = "boot" THEN admin
                ELSE [admin EXCEPT !.pc = "respond", !.failed = fleet.failed,
                                   !.prev = fleet.prev]
    /\ UNCHANGED <<fvars, boot, disk, config, objs, accounts, clients, task, reloads, edits>>

\* the except clause of reload_config: start() on the accounts held
Fallback(held, step) ==
    [IdleFleet EXCEPT !.pc = "start", !.todo = held, !.mode = "fallback",
                      !.failed = step, !.prev = fleet.prev]

\* reload_config, lines 465-472: the new configuration is loaded, then
\* stop() begins
ReloadBegin(c) ==
    /\ edits + reloads < MaxOps
    /\ reloads' = reloads + 1
    /\ admin' = [IdleAdmin EXCEPT !.pc = "reload", !.client = c,
                                  !.text = ReloadCommand, !.invoked = TRUE]
    /\ fleet' = IF LoadRaises(disk)
                THEN [Fallback(accounts, "load") EXCEPT !.prev = config]
                ELSE [IdleFleet EXCEPT !.pc = "stop", !.todo = accounts,
                                       !.mode = "reload", !.new_config = disk,
                                       !.prev = config]
    /\ UNCHANGED <<fvars, boot, disk, config, objs, accounts, clients, task, lastReload, edits>>

\* An event whose text starts with /reload arrives at a connected client:
\* reload_config is called when the text is the command itself
handle_admin_commands(c, text) ==
    /\ task.pc # "done" /\ admin.pc = "idle"
    /\ fleet.pc = "idle"
    /\ clients[c].connected /\ clients[c].handlers
    /\ IF text = ReloadCommand
       THEN ReloadBegin(c)
       ELSE /\ admin' = [IdleAdmin EXCEPT !.pc = "done", !.client = c, !.text = text]
            /\ UNCHANGED <<fvars, boot, disk, config, objs, accounts, clients, fleet,
                           task, reloads, lastReload, edits>>

\* line 500: the acknowledgement is delivered
RespondOk ==
    /\ task.pc # "done" /\ admin.pc = "respond"
    /\ clients[admin.client].connected
    /\ admin' = [admin EXCEPT !.pc = "done", !.replies = Append(@, "success")]
    /\ UNCHANGED <<fvars, boot, disk, config, objs, accounts, clients, fleet, task,
                   reloads, lastReload, edits>>

\* line 500 raises (the client is disconnected, or the request fails):
\* the except clause of line 501 is entered
RespondFails ==
    /\ task.pc # "done" /\ admin.pc = "respond"
    /\ admin' = [admin EXCEPT !.pc = "report"]
    /\ UNCHANGED <<fvars, boot, disk, config, objs, accounts, clients, fleet, task,
                   reloads, lastReload, edits>>

\* line 503: the error text is delivered
ReportOk ==
    /\ task.pc # "done" /\ admin.pc = "report"
    /\ clients[admin.client].connected
    /\ admin' = [admin EXCEPT !.pc = "done", !.replies = Append(@, "error")]
    /\ UNCHANGED <<fvars, boot, disk, config, objs, accounts, clients, fleet, task,
                   reloads, lastReload, edits>>

\* line 503 raises inside the except clause: the exception leaves
\* handle_admin_commands
ReportFails ==
    /\ task.pc # "done" /\ admin.pc = "report"
    /\ admin' = [admin EXCEPT !.pc = "done", !.raised = TRUE]
    /\ UNCHANGED <<fvars, boot, disk, config, objs, accounts, clients, fleet, task,
                   reloads, lastReload, edits>>

\* handle_admin_commands is over; the event's task is gone
AdminReturn ==
    /\ admin.pc = "done"
    /\ admin' = IdleAdmin
    /\ UNCHANGED <<fvars, boot, disk, config, objs, accounts, clients, fleet, task,
                   reloads, lastReload, edits>>

\* run(), lines 516-523: the forwarder is interrupted and stop() begins
Shutdown ==
    /\ task.pc = "idle" /\ admin.pc = "idle"
    /\ fleet.pc = "idle"
    /\ fleet' = [IdleFleet EXCEPT !.pc = "stop", !.todo = accounts,
                                  !.mode = "shutdown"]
    /\ UNCHANGED <<fvars, boot, admin, disk, config, objs, accounts, clients, task, reloads, lastReload, edits>>

\* stop(), one account: disconnect its client if it has one
StopAccount ==
    /\ task.pc # "done" /\ admin.pc # "done"
    /\ fleet.pc = "stop" /\ fleet.todo # <<>>
    /\ LET c == objs[Head(fleet.todo)].client IN
       clients' = IF c = 0 THEN clients ELSE [clients EXCEPT ![c].connected = FALSE]
    /\ fleet' = [fleet EXCEPT !.todo = Tail(@)]
    /\ UNCHANGED <<fvars, boot, admin, disk, config, objs, accounts, task, reloads, lastReload, edits>>

\* stop(), one account: disconnect() raises and stop() with it; reload_config
\* falls back, run() ends
StopAccountFails ==
    /\ task.pc # "done" /\ admin.pc # "done"
    /\ fleet.pc = "stop" /\ fleet.todo # <<>>
    /\ objs[Head(fleet.todo)].client # 0
    /\ fleet' = IF fleet.mode = "shutdown"
                THEN [IdleFleet EXCEPT !.pc = "halted", !.failed = "stop"]
                ELSE Fallback(accounts, "stop")
    /\ UNCHANGED <<fvars, boot, admin, disk, config, objs, accounts, clients, task, reloads, lastReload, edits>>

\* stop() of run() returns: the forwarder has stopped
StopDone ==
    /\ task.pc # "done" /\ admin.pc # "done"
    /\ fleet.pc = "stop" /\ fleet.todo = <<>> /\ fleet.mode = "shutdown"
    /\ fleet' = [IdleFleet EXCEPT !.pc = "halted"]
    /\ UNCHANGED <<fvars, boot, admin, disk, config, objs, accounts, clients, task, reloads, lastReload, edits>>

\* accounts.clear() drops the reference to the old accounts; one none of
\* whose clients is connected gets no event again, its routes are garbage
Collected(a) ==
    IF \E c \in 1..Len(clients) : clients[c].acct = a /\ clients[c].connected
    THEN objs[a]
    ELSE [objs[a] EXCEPT !.mappings = <<>>]

\* reload_config, lines 474-485: the new configuration replaces the old,
\* the accounts held are dropped and rebuilt from it, then start() begins;
\* when TelegramAccount() raises, the except clause starts what is held
Rebuild ==
    /\ task.pc # "done" /\ admin.pc # "done"
    /\ fleet.pc = "stop" /\ fleet.todo = <<>> /\ fleet.mode = "reload"
    /\ config' = fleet.new_config
    /\ IF TelegramAccountRaises(Load(fleet.new_config))
       THEN /\ objs' = [a \in 1..Len(objs) |-> Collected(a)]
            /\ accounts' = <<>>
            /\ fleet' = Fallback(<<>>, "setup")
       ELSE LET new == NewAccounts(Load(fleet.new_config)) IN
            /\ objs' = [a \in 1..Len(objs) |-> Collected(a)] \o new
            /\ accounts' = [i \in 1..Len(new) |-> Len(objs) + i]
            /\ fleet' = [IdleFleet EXCEPT !.pc = "start", !.todo = accounts',
                                          !.mode = "reload", !.prev = fleet.prev]
    /\ UNCHANGED <<fvars, boot, admin, disk, clients, task, reloads, lastReload, edits>>

----------------------------------------------------------------------------
(* Event dispatch: an event of a source chat reaches every running client  *)
(* that is in the chat; each client's handler of the route is a task of    *)
(* its own (start(), lines 445-448).                                       *)

\* observers: the clients the event is dispatched to; waiting: those whose
\* handler has not run yet; attempts, passed, delivered: first sends
\* attempted, handlers that passed the filter, messages delivered
IdleEvent ==
    [pc |-> "none", message |-> TextMessage(<<>>), route |-> 0,
     observers |-> {}, waiting |-> {},
     attempts |-> 0, passed |-> 0, delivered |-> 0]

RunningClients ==
    {c \in 1..Len(clients) : clients[c].connected /\ clients[c].handlers}

\* an event arrives in the source chat of route k
Arrive(m, k, S) ==
    /\ event.pc = "none" /\ task.pc = "idle" /\ fleet.pc = "idle"
    /\ S # {} /\ S \subseteq RunningClients
    /\ \A c \in S : k <= Len(objs[clients[c].acct].mappings)
    /\ event' = [IdleEvent EXCEPT !.pc = "open", !.message = m, !.route = k,
                                  !.observers = S, !.waiting = S]
    /\ UNCHANGED <<fMapping, fMessage, fResult, dProbe, race, mvars>>

\* the handler of one observing client runs up to its first send
Dispatch(c) ==
    /\ event.pc = "open" /\ c \in event.waiting
    /\ task.pc = "idle"
    /\ LET r == HandleStart(c, event.route, event.message)
       IN objs' = r.objs /\ task' = r.task
    /\ event' = [event EXCEPT !.waiting = @ \ {c}]
    /\ UNCHANGED <<fMapping, fMessage, fResult, dProbe, race, boot, admin, disk,
                   config, accounts, clients, fleet, reloads, lastReload, edits>>

\* the handler returns
DispatchReturn ==
    /\ event.pc = "open" /\ task.pc = "done"
    /\ event' = [event EXCEPT
                    !.attempts = @ + task.first,
                    !.passed = @ + (IF task.verdict \in {"forwarded", "failed"}
                                    THEN 1 ELSE 0),
                    !.delivered = @ + Len(task.out)]
    /\ task' = IdleTask
    /\ UNCHANGED <<fMapping, fMessage, fResult, dProbe, race, boot, admin, disk,
                   config, objs, accounts, clients, fleet, reloads, lastReload, edits>>

\* every handler has returned; the event is over
EventOver ==
    /\ event.pc = "open" /\ event.waiting = {} /\ task.pc = "idle"
    /\ event' = IdleEvent
    /\ UNCHANGED <<fMapping, fMessage, fResult, dProbe, race, mvars>>

----------------------------------------------------------------------------
(* Two /reload commands: every handler of an event is a task of the event  *)
(* loop, so two handle_admin_commands run reload_config side by side and   *)
(* take turns at its awaits: account.stop() inside stop() (line 461) and   *)
(* account.start() inside start() (line 442).                              *)

Tasks == {1, 2}

\* One reload_config task. snap and pos are the iterator of
\* self.accounts.values() of the loop the task is in: the map as it was when
\* the iterator was made, and the number of accounts taken from it; cur and
\* cli are the account and the client of the pending await.
IdleRaceTask ==
    [pc |-> "idle", mode |-> "none", new_config |-> 0, snap |-> <<>>, pos |-> 0,
     cur |-> 0, cli |-> 0, failed |-> "none", result |-> "none"]

\* overlapped: a task began while the other was at an await
IdleRace == [t |-> [r \in Tasks |-> IdleRaceTask], overlapped |-> FALSE]

\* what one task sees and changes of the forwarder
World(r) ==
    [accounts |-> accounts, objs |-> objs, clients |-> clients,
     config |-> config, t |-> race.t[r]]

\* next() on the iterator of self.accounts.values(). A map cleared and
\* refilled since the iterator was made: RuntimeError when its size is not
\* the size it had; with the same size the iterator either raises or goes
\* on over the entries the map has now.
IterNext(w, raises) ==
    IF w.accounts # w.t.snap /\ (Len(w.accounts) # Len(w.t.snap) \/ raises)
    THEN "error"
    ELSE IF w.t.pos < Len(w.accounts) THEN "item" ELSE "stop"

\* start(), lines 440-442, from next() to the await of account.start():
\* TelegramAccount.start() makes a new client, assigns it to self.client and
\* awaits its start(); the loop over, reload_config returns
StartStep(w, raises) ==
    LET o == IterNext(w, raises) IN
    CASE o = "error" -> [w EXCEPT !.t.pc = "raise",
                                  !.t.failed = IF @ = "none" THEN "iteration" ELSE @]
      [] o = "stop" ->
            [w EXCEPT !.t.pc = "done",
                      !.t.result = IF w.t.mode = "reload" THEN "reloaded"
                                   ELSE "reverted"]
      [] OTHER ->
            LET a == w.accounts[w.t.pos + 1]
                c == Len(w.clients) + 1
            IN [w EXCEPT !.clients = Append(@, [connected |-> FALSE,
                                                handlers |-> FALSE, acct |-> a]),
                         !.objs[a].client = c,
                         !.t.pc = "starting", !.t.pos = @ + 1,
                         !.t.cur = a, !.t.cli = c]

\* the except clause of reload_config, lines 489-493: start() again, on the
\* accounts the map holds now
Except(w, step) ==
    StartStep([w EXCEPT !.t.mode = "fallback", !.t.snap = w.accounts, !.t.pos = 0,
                        !.t.failed = IF @ = "none" THEN step ELSE @], FALSE)

\* start() goes on; a RuntimeError of the iterator leaves start(): into the
\* except clause of reload_config, or out of reload_config when it is the
\* start() of the except clause
StartLoop(w, raises) ==
    LET n == StartStep(w, raises) IN
    IF n.t.pc # "raise" THEN n
    ELSE IF w.t.mode = "reload" THEN Except(w, "iteration")
    ELSE [n EXCEPT !.t.pc = "done", !.t.result = "raised"]

\* reload_config, lines 474-485: the configuration replaced, the map cleared
\* and refilled with new accounts, start() begun
RebuildStep(w) ==
    LET cfg == Load(w.t.new_config)
        w0 == [w EXCEPT !.config = w.t.new_config]
    IN IF TelegramAccountRaises(cfg)
       THEN Except([w0 EXCEPT !.accounts = <<>>], "setup")
       ELSE LET new == NewAccounts(cfg)
                held == [i \in 1..Len(new) |-> Len(w.objs) + i]
            IN StartStep([w0 EXCEPT !.objs = @ \o new, !.accounts = held,
                                    !.t.snap = held, !.t.pos = 0], FALSE)

\* stop(), lines 460-461, from next() to the await of account.stop(): an
\* account without a client is passed over; the loop over, the rebuild
RECURSIVE StopLoop(_, _)
StopLoop(w, raises) ==
    LET o == IterNext(w, raises) IN
    CASE o = "error" -> Except(w, "iteration")
      [] o = "stop" -> RebuildStep(w)
      [] OTHER ->
            LET a == w.accounts[w.t.pos + 1]
                w1 == [w EXCEPT !.t.pos = @ + 1]
            IN IF w.objs[a].client = 0 THEN StopLoop(w1, raises)
               ELSE [w1 EXCEPT !.t.pc = "stopping", !.t.cur = a,
                               !.t.cli = w.objs[a].client]

\* the task is suspended, the loop takes its changes over
Suspend(r, w) ==
    /\ accounts' = w.accounts
    /\ objs' = w.objs
    /\ clients' = w.clients
    /\ config' = w.config
    /\ race' = [race EXCEPT !.t[r] = w.t,
                            !.overlapped = @ \/ (race.t[r].pc = "idle" /\
                                \E q \in Tasks : race.t[q].pc \in {"stopping", "starting"})]
    /\ UNCHANGED <<fMapping, fMessage, fResult, dProbe, event, boot, admin, disk,
                   fleet, task, reloads, lastReload, edits>>

\* /reload reaches running client c: handle_admin_commands calls
\* reload_config, which loads the file and runs into stop()
RaceBegin(r, c) ==
    /\ fleet.pc = "idle" /\ task.pc = "idle" /\ admin.pc = "idle"
    /\ race.t[r].pc = "idle"
    /\ c \in RunningClients
    /\ LET w == World(r) IN
       Suspend(r, IF LoadRaises(disk) THEN Except(w, "load")
                  ELSE StopLoop([w EXCEPT !.t.mode = "reload",
                                          !.t.new_config = disk,
                                          !.t.snap = accounts], FALSE))

\* the disconnect awaited returns, or raises and stop() with it
RaceStopped(r, ok, raises) ==
    /\ race.t[r].pc = "stopping"
    /\ LET w == World(r) IN
       Suspend(r, IF ok
                  THEN StopLoop([w EXCEPT !.clients[w.t.cli].connected = FALSE],
                                raises)
                  ELSE Except(w, "stop"))

\* the start awaited returns and the handlers are registered on the client
\* the account holds now (lines 445-453), or it raises, which start() logs
RaceStarted(r, ok, raises) ==
    /\ race.t[r].pc = "starting"
    /\ LET w == World(r)
           held == w.objs[w.t.cur].client
       IN Suspend(r, StartLoop(
              IF ok
              THEN [w EXCEPT !.clients =
                        [[@ EXCEPT ![w.t.cli].connected = TRUE]
                            EXCEPT ![held].handlers = TRUE]]
              ELSE [w EXCEPT !.t.failed = IF @ = "none" THEN "start" ELSE @],
              raises))

----------------------------------------------------------------------------
(* The forwarder: constructed from a readable configuration, then run() *)

ProbeIdle ==
    /\ fMapping = Absent /\ fMessage = TextMessage(<<>>) /\ fResult = "none"
    /\ dProbe = DestProbeIdle
    /\ event = IdleEvent /\ race = IdleRace

Init ==
    /\ ProbeIdle
    /\ disk \in BootVersions
    /\ config = disk
    /\ objs = NewAccounts(Load(disk))
    /\ accounts = [i \in 1..Len(objs) |-> i]
    /\ clients = <<>>
    /\ fleet = [IdleFleet EXCEPT !.pc = "start", !.todo = accounts, !.mode = "boot"]
    /\ task = IdleTask
    /\ admin = IdleAdmin
    /\ reloads = 0
    /\ lastReload = "none"
    /\ edits = 0
    /\ boot = disk

Next ==
    \/ \E ok \in BOOLEAN : StartAccount(ok)
    \/ StartDone
    \/ \E c \in 1..Len(clients), text \in AdminTexts : handle_admin_commands(c, text)
    \/ RespondOk
    \/ RespondFails
    \/ ReportOk
    \/ ReportFails
    \/ AdminReturn
    \/ Shutdown
    \/ StopAccount
    \/ StopAccountFails
    \/ StopDone
    \/ Rebuild
    \/ \E d \in DiskStates : EditConfig(d)
    \/ \E c \in 1..Len(clients), m \in MainMessages :
          \E k \in 1..Len(objs[clients[c].acct].mappings) : handle_message(c, k, m)
    \/ FirstSendOk
    \/ FirstSendFails
    \/ PeerSendOk
    \/ PeerSendFails
    \/ Return

Spec == Init /\ [][Next]_vars

\* The forwarder after start-up, with two /reload commands; the file is one
\* of the versions with one and with two sessions, or unreadable
RaceVersions == {1, 2}

RaceInit ==
    /\ ProbeIdle
    /\ disk \in RaceVersions
    /\ config = disk
    /\ objs = NewAccounts(Load(disk))
    /\ accounts = [i \in 1..Len(objs) |-> i]
    /\ clients = <<>>
    /\ fleet = [IdleFleet EXCEPT !.pc = "start", !.todo = accounts, !.mode = "boot"]
    /\ task = IdleTask
    /\ admin = IdleAdmin
    /\ reloads = 0
    /\ lastReload = "none"
    /\ edits = 0
    /\ boot = disk

RaceNext ==
    \/ \E ok \in BOOLEAN : StartAccount(ok)
    \/ StartDone
    \/ \E d \in {0} \cup RaceVersions : EditConfig(d)
    \/ \E r \in Tasks, c \in RunningClients : RaceBegin(r, c)
    \/ \E r \in Tasks, ok, raises \in BOOLEAN : RaceStopped(r, ok, raises)
    \/ \E r \in Tasks, ok, raises \in BOOLEAN : RaceStarted(r, ok, raises)

RaceSpec == RaceInit /\ [][RaceNext]_vars

\* The forwarder after start-up, with events dispatched to its sessions
FanVersions == {1, 2, 7, 9}

FanInit ==
    /\ ProbeIdle
    /\ disk \in FanVersions
    /\ config = disk
    /\ objs = NewAccounts(Load(disk))
    /\ accounts = [i \in 1..Len(objs) |-> i]
    /\ clients = <<>>
    /\ fleet = [IdleFleet EXCEPT !.pc = "start", !.todo = accounts, !.mode = "boot"]
    /\ task = IdleTask
    /\ admin = IdleAdmin
    /\ reloads = 0
    /\ lastReload = "none"
    /\ edits = 0
    /\ boot = disk

FanNext ==
    \/ \E ok \in BOOLEAN : StartAccount(ok)
    \/ StartDone
    \/ \E d \in DiskStates : EditConfig(d)
    \/ \E m \in MainMessages, k \in 1..Len(Load(config).mappings),
          S \in SUBSET RunningClients : Arrive(m, k, S)
    \/ \E c \in event.waiting : Dispatch(c)
    \/ FirstSendOk
    \/ FirstSendFails
    \/ PeerSendOk
    \/ PeerSendFails
    \/ DispatchReturn
    \/ EventOver

FanSpec == FanInit /\ [][FanNext]_vars

\* The filter probe, the rest of the program at rest
FilterSpecInit ==
    /\ FilterInit
    /\ disk = 1 /\ config = 1 /\ objs = <<>> /\ accounts = <<>> /\ clients = <<>>
    /\ fleet = IdleFleet /\ task = IdleTask /\ admin = IdleAdmin /\ reloads = 0 /\ lastReload = "none"
    /\ edits = 0 /\ boot = 1
    /\ event = IdleEvent /\ race = IdleRace

FilterNext == Evaluate /\ UNCHANGED mvars

FilterSpec == FilterSpecInit /\ [][FilterNext]_vars

\* The filter probe on mappings with faulty patterns
PatternSpecInit ==
    /\ fMapping \in FaultyMappings
    /\ fMessage \in ProbeMessages
    /\ fResult = "none"
    /\ dProbe = DestProbeIdle
    /\ disk = 1 /\ config = 1 /\ objs = <<>> /\ accounts = <<>> /\ clients = <<>>
    /\ fleet = IdleFleet /\ task = IdleTask /\ admin = IdleAdmin /\ reloads = 0 /\ lastReload = "none"
    /\ edits = 0 /\ boot = 1
    /\ event = IdleEvent /\ race = IdleRace

PatternSpec == PatternSpecInit /\ [][FilterNext]_vars

\* The destination probe, the rest of the program at rest
DestSpecInit ==
    /\ DestInit
    /\ fMapping = Absent /\ fMessage = TextMessage(<<>>) /\ fResult = "none"
    /\ disk = 1 /\ config = 1 /\ objs = <<>> /\ accounts = <<>> /\ clients = <<>>
    /\ fleet = IdleFleet /\ task = IdleTask /\ admin = IdleAdmin /\ reloads = 0 /\ lastReload = "none"
    /\ edits = 0 /\ boot = 1
    /\ event = IdleEvent /\ race = IdleRace

DestNext ==
    \/ NormalizeDestination /\ UNCHANGED mvars
    \/ ResolvePeer /\ UNCHANGED mvars

DestSpec == DestSpecInit /\ [][DestNext]_vars

----------------------------------------------------------------------------
(* Properties of the route filter (FilterSpec) *)

ProbeText == get_message_text(fMessage)
ProbeFlag(name) == Get(fMapping, name, FALSE)
ProbeKeywords(name) == Get(fMapping, name, <<>>)

\* some keyword of the list occurs in the text, letter case ignored
Occurs(keywords, text) ==
    \E i \in 1..Len(keywords) : Contains(lower(text), lower(keywords[i]))

ExcludedHit == Occurs(ProbeKeywords("keywords_exclude"), ProbeText)
IncludedHit == Occurs(ProbeKeywords("keywords_include"), ProbeText)

\* C3 as stated: a message whose text contains an exclusion keyword is
\* rejected whatever the other settings of the route are, the
\* keyword_filtering_enabled flag included.
C3_ExcludedAlwaysRejected ==
    (fResult # "none" /\ ExcludedHit) => fResult = "reject"

\* C3 amended: with keyword filtering enabled, a message whose text contains
\* an exclusion keyword (letter case ignored) is rejected whatever the
\* inclusion keywords and the threshold settings are.
C3_ExcludedRejectedWhenEnabled ==
    (fResult # "none" /\ ProbeFlag("keyword_filtering_enabled") /\ ExcludedHit)
        => fResult = "reject"

\* an excluded keyword written in another letter case than the text, the
\* inclusion list satisfied and no threshold filtering: rejected
C3_Witness ==
    /\ fResult = "reject"
    /\ ProbeFlag("keyword_filtering_enabled")
    /\ ExcludedHit /\ IncludedHit
    /\ ~ProbeFlag("number_threshold_enabled")
    /\ Contains(ProbeText, SELL)

\* C4: with keyword filtering enabled and inclusion keywords configured, a
\* message is rejected unless one of them occurs in its text; and a message
\* holding both an exclusion and an inclusion keyword is rejected.
C4_InclusionRequired ==
    (fResult # "none" /\ ProbeFlag("keyword_filtering_enabled"))
        => /\ (ProbeKeywords("keywords_include") # <<>> /\ ~IncludedHit)
                => fResult = "reject"
           /\ (ExcludedHit /\ IncludedHit) => fResult = "reject"

\* both an exclusion and an inclusion keyword in the text, thresholds off
C4_Witness ==
    /\ fResult = "reject"
    /\ ProbeFlag("keyword_filtering_enabled")
    /\ ExcludedHit /\ IncludedHit
    /\ ~ProbeFlag("number_threshold_enabled")
    /\ Contains(ProbeText, BUY) \/ Contains(ProbeText, <<"7">>)

\* the numbers of the text, and the configured range with its defaults
ProbeNumbers == extract_numbers(MessageFilter(fMapping), ProbeText)
ProbeInRange(n) ==
    /\ IF "number_threshold_min" \in DOMAIN fMapping
       THEN fMapping["number_threshold_min"].v <= n ELSE 0 <= n
    /\ "number_threshold_max" \in DOMAIN fMapping
           => n <= fMapping["number_threshold_max"].v
ProbeKeywordsPass ==
    ProbeFlag("keyword_filtering_enabled")
        => /\ ~ExcludedHit
           /\ ProbeKeywords("keywords_include") # <<>> => IncludedHit

\* C5: with threshold filtering enabled and the keyword check passing, the
\* message is rejected when no number is extracted and otherwise accepted
\* exactly when some extracted number lies in [min, max], bounds included,
\* min defaulting to 0 and max to no bound; with both filters disabled every
\* message passes.
C5_ThresholdDecides ==
    fResult # "none" =>
        /\ (ProbeFlag("number_threshold_enabled") /\ ProbeKeywordsPass)
               => /\ ProbeNumbers = <<>> => fResult = "reject"
                  /\ fResult = "forward"
                        <=> \E i \in 1..Len(ProbeNumbers) : ProbeInRange(ProbeNumbers[i])
        /\ (~ProbeFlag("number_threshold_enabled")
              /\ ~ProbeFlag("keyword_filtering_enabled")) => fResult = "forward"

\* the only number extracted equals both bounds: accepted
C5_Witness ==
    /\ fResult = "forward"
    /\ ProbeFlag("number_threshold_enabled")
    /\ "number_threshold_min" \in DOMAIN fMapping
    /\ "number_threshold_max" \in DOMAIN fMapping
    /\ fMapping["number_threshold_min"] = fMapping["number_threshold_max"]
    /\ ProbeNumbers = <<fMapping["number_threshold_min"].v>>

----------------------------------------------------------------------------
(* Properties of the per-message pipeline (Spec) *)

Handled == task.pc # "idle"
TaskText == get_message_text(task.message)

\* the mapping of the file read by the task that names the same chats as
\* the route, whether written as integers or as decimal strings
SamePair(new_mapping, mapping) ==
    /\ ToInt(new_mapping["source"]) = ToInt(mapping["source"])
    /\ ToInt(new_mapping["destination"]) = ToInt(mapping["destination"])

\* C1 as stated: whenever a message is evaluated and the file was readable,
\* the filter and the enabled flag the route is evaluated with are those of
\* the on-disk mapping with the route's (source, destination), for integer
\* and for decimal-string identifiers alike.
C1_SettingsFollowDisk ==
    (Handled /\ task.read # 0) =>
        \A i \in 1..Len(Load(task.read).mappings) :
            LET new_mapping == Load(task.read).mappings[i] IN
            SamePair(new_mapping, task.before)
                => /\ task.used["filter"] = MessageFilter(new_mapping)
                   /\ Get(task.used, "enabled", TRUE) = Get(new_mapping, "enabled", TRUE)

\* the route of chat 100 to chat 200 in a configuration version
Route100To200(v) == ConfigVersions[v].mappings[1]

\* the event arrived after the first reload_config had completed and
\* succeeded, the forwarder having started with keywords_include = [buy],
\* the file holding keywords_include = [sell] at the reload and since
AfterReloadToSell ==
    /\ Handled /\ task.route = 1
    /\ task.nth = 1 /\ task.after # 0 /\ task.read = task.after
    /\ Get(Route100To200(boot), "keywords_include", <<>>) = <<Buy>>
    /\ Get(Route100To200(task.after), "keywords_include", <<>>) = <<Sell>>
    /\ SamePair(Route100To200(task.after), Route100To200(boot))

BuyNotSell ==
    /\ Contains(lower(TaskText), Buy)
    /\ ~Contains(lower(TaskText), Sell)

NotForwarded ==
    /\ task.pc = "done"
    /\ task.verdict \in {"filtered", "disabled"}
    /\ task.first = 0 /\ task.out = <<>>

\* C2 as stated: after the edit to keywords_include = [sell] and a completed
\* /reload, a message with "buy" and without "sell" is not forwarded.
C2_BuyNoLongerForwarded ==
    (AfterReloadToSell /\ BuyNotSell) => NotForwarded

\* C2 amended: the same, for a route whose edited configuration has
\* keyword_filtering_enabled set.
C2_BuyNoLongerForwardedWhenEnabled ==
    (/\ AfterReloadToSell /\ BuyNotSell
     /\ Get(Route100To200(task.after), "keyword_filtering_enabled", FALSE))
        => NotForwarded

\* a route keyed by decimal strings, reloaded from [buy] to [sell], and a
\* message "buy" filtered out by the rebuilt session
C2_Witness ==
    /\ AfterReloadToSell /\ BuyNotSell
    /\ Get(Route100To200(task.after), "keyword_filtering_enabled", FALSE)
    /\ Route100To200(task.after)["source"].str
    /\ task.verdict = "filtered"

\* C6 as stated: what is delivered is the text as the route's modifier
\* transforms it (prefix, newline, text, newline, suffix); the original
\* text when modification is disabled.
C6_DeliveredIsTransformed ==
    \A i \in 1..Len(task.out) :
        get_message_text(task.out[i].message)
            = modify_message(MessageModifier(task.used), TaskText)

\* C7: an event on a route whose settings after the re-read have
\* enabled = false is dropped with no send attempted, first or fallback; a
\* route without an enabled field is not dropped as disabled.
C7_DisabledNeverSends ==
    Handled =>
        /\ ~Get(task.used, "enabled", TRUE)
              => /\ task.pc = "done" /\ task.verdict = "disabled"
                 /\ task.first = 0 /\ task.second = 0 /\ task.peerSends = 0
                 /\ task.out = <<>>
        /\ "enabled" \notin DOMAIN task.used => task.verdict # "disabled"

\* a disabled route whose filter would have accepted the message
C7_Witness ==
    /\ task.pc = "done" /\ task.verdict = "disabled"
    /\ task.used["enabled"] = FALSE
    /\ should_forward(task.used["filter"], task.message)

PassedFilter == task.verdict \in {"passed", "forwarded", "failed"}

C9_FailuresStayInTheHandler ==
    [][task' # task =>
          /\ ~task'.escaped
          /\ clients' = clients /\ accounts' = accounts /\ fleet' = fleet
          /\ task.pc = "done" => task' = IdleTask]_vars

\* the filter raised while the file was readable, and the event was dropped
C9_Witness ==
    /\ task.pc = "done" /\ task.verdict = "error" /\ task.read # 0
    /\ should_forward_raises(task.used["filter"], task.message)
    /\ ~task.escaped
    /\ clients[task.client].connected /\ clients[task.client].handlers

\* C10: when the re-read fails, the route keeps the settings it held, and
\* the event is evaluated under them: dropped if they disable the route or
\* reject the message, sent to the held destination if they accept it.
C10_ReadFailureKeepsSettings ==
    (Handled /\ task.read = 0) =>
        /\ task.used = task.before
        /\ objs[task.acct].mappings # <<>>
              => objs[task.acct].mappings[task.route] = task.before
        /\ task.verdict = "disabled" <=> ~Get(task.before, "enabled", TRUE)
        /\ task.verdict = "error"
              <=> /\ Get(task.before, "enabled", TRUE)
                  /\ should_forward_raises(task.before["filter"], task.message)
        /\ (/\ Get(task.before, "enabled", TRUE)
             /\ ~should_forward_raises(task.before["filter"], task.message)
             /\ should_forward(task.before["filter"], task.message))
              => PassedFilter

\* the file unreadable, the message delivered under the settings held
C10_Witness ==
    /\ task.pc = "done" /\ task.read = 0
    /\ task.verdict = "forwarded" /\ Len(task.out) = 1
    /\ task.used = task.before

----------------------------------------------------------------------------
(* Properties of the destination handling (DestSpec) *)

RECURSIVE Pow10(_)
Pow10(n) == IF n = 0 THEN 1 ELSE 10 * Pow10(n - 1)

DestText == dProbe.destination.s
AfterSign == Tail(DestText)

\* C17: the destination given to the first send.  A string "-100" + X is
\* the integer it spells; a string "-" + X not starting with "-100" is the
\* integer spelt by "-100" + X, that is -(100 * 10^|X| + X); a string of
\* digits is the positive integer it spells; an integer is itself.
C17_DestinationNormalized ==
    dProbe.pc = "normalized" =>
        /\ ~dProbe.destination.str => dProbe.normalized = dProbe.destination
        /\ (dProbe.destination.str /\ IsDigit(DestText))
              => dProbe.normalized = IntId(ToNum(DestText))
        /\ (dProbe.destination.str /\ StartsWith(DestText, Minus100))
              => dProbe.normalized = IntId(0 - ToNum(AfterSign))
        /\ (/\ dProbe.destination.str /\ StartsWith(DestText, <<"-">>)
             /\ ~StartsWith(DestText, Minus100))
              => dProbe.normalized
                    = IntId(0 - (100 * Pow10(Len(AfterSign)) + ToNum(AfterSign)))

\* the basic-group identifier "-7" becomes -1007
C17_Witness ==
    /\ dProbe.pc = "normalized"
    /\ dProbe.destination = StrId(<<"-", "7">>)
    /\ dProbe.normalized = IntId(0 - 1007)

Magnitude == NatToStr(Abs(dProbe.normalized.n))

\* C20 as stated: the channel identifier of the retry is the magnitude of
\* the normalized destination without its leading marker "100"; a
\* magnitude that does not start with the marker is used unchanged.
C20_PeerStripsLeadingMarker ==
    dProbe.pc = "peer" =>
        dProbe.peer = IF StartsWith(Magnitude, <<"1", "0", "0">>)
                      THEN ToNum(SubSeq(Magnitude, 4, Len(Magnitude)))
                      ELSE Abs(dProbe.normalized.n)

----------------------------------------------------------------------------
(* Properties of faulty number patterns (PatternSpec) *)

IsSound(pattern) == pattern.kind = "capture"

\* the numbers the well-formed capturing patterns of the mapping extract
SoundNumbers ==
    ExtractFrom(SelectSeq(fMapping["number_regex_patterns"], IsSound),
                lower(ProbeText))

\* C18 as stated: with a malformed pattern, or one whose capture is no
\* number, among the patterns of a route, the filter is still built and
\* should_forward still decides, by the numbers of the other patterns.
C18_FaultyPatternSkipped ==
    fResult # "none" =>
        /\ fResult \in {"forward", "reject"}
        /\ ProbeKeywordsPass
              => (fResult = "forward"
                    <=> \E i \in 1..Len(SoundNumbers) : ProbeInRange(SoundNumbers[i]))

\* the same for the patterns that compile: one whose capture is no number
\* adds nothing, the numbers of the others decide
PatternsThatCompile ==
    (fResult # "none" /\ ~MessageFilterRaises(fMapping)) =>
        /\ fResult \in {"forward", "reject"}
        /\ ProbeKeywordsPass
              => (fResult = "forward"
                    <=> \E i \in 1..Len(SoundNumbers) : ProbeInRange(SoundNumbers[i]))

----------------------------------------------------------------------------
(* Properties of the fleet coordinator and of /reload (Spec) *)

\* reload_config has returned to handle_admin_commands
ReloadReturned == admin.invoked /\ admin.pc \in {"respond", "report", "done"}

\* the account has a connected client with its subscriptions registered
Running(a) ==
    \E c \in 1..Len(clients) :
        clients[c].acct = a /\ clients[c].connected /\ clients[c].handlers

\* the accounts held are those of configuration version v, each running
SessionsRunning(v) ==
    /\ Len(accounts) = Len(Load(v).sessions)
    /\ \A i \in 1..Len(accounts) :
          /\ objs[accounts[i]].session_name = Load(v).sessions[i]
          /\ Running(accounts[i])

\* C11 as stated: when a step of reload_config failed (load, stop, build or
\* start), on return the coordinator holds the configuration it held before
\* and the sessions of that configuration are running.
C11_FailedReloadRestoresFleet ==
    (ReloadReturned /\ admin.failed # "none") =>
        /\ config = admin.prev
        /\ SessionsRunning(admin.prev)

\* C12 as stated: the success text is delivered only when the reload
\* succeeded; after a failed reload whatever is delivered is the error text.
C12_SuccessOnlyWhenReloaded ==
    \A i \in 1..Len(admin.replies) :
        /\ admin.replies[i] = "success" => admin.failed = "none"
        /\ admin.failed # "none" => admin.replies[i] = "error"

\* C13 as stated: reload_config is invoked only for the text /reload, and
\* no exception leaves handle_admin_commands, a failing acknowledgement
\* included.
C13_AdminNeverRaises ==
    /\ admin.invoked => admin.text = ReloadCommand
    /\ ~admin.raised

\* C14 as stated: a session is started (a client created, connected and
\* subscribed) only when it is stopped: never while a client of the same
\* session is connected.
C14_StartedOnlyFromStopped ==
    [][Len(clients') > Len(clients) =>
          ~\E c \in 1..Len(clients) :
               /\ clients[c].acct = clients'[Len(clients')].acct
               /\ clients[c].connected]_vars

\* C15 as stated: a session never has two connected clients, every
\* connected client is the client of an account the coordinator holds, and
\* once stop() has completed no client is connected.
C15_NoClientOutlivesStop ==
    /\ \A c1, c2 \in 1..Len(clients) :
          (/\ clients[c1].connected /\ clients[c2].connected
           /\ clients[c1].acct = clients[c2].acct) => c1 = c2
    /\ \A c \in 1..Len(clients) :
          clients[c].connected
              => \E i \in 1..Len(accounts) : objs[accounts[i]].client = c
    /\ (fleet.pc = "halted" /\ fleet.failed = "none")
          => \A c \in 1..Len(clients) : ~clients[c].connected

\* C16: in a run of start() every account held is attempted, in order,
\* whatever happened to the accounts before it: the client of an account
\* whose connection failed has no subscription, the client of one that
\* connected has them.
C16_StartGoesOnAfterFailure ==
    fleet.pc = "start" =>
        /\ Len(fleet.started) + Len(fleet.todo) = Len(accounts)
        /\ \A i \in 1..Len(fleet.started) :
              LET c == fleet.started[i] IN
              /\ clients[c].acct = accounts[i]
              /\ objs[accounts[i]].client = c
              /\ clients[c].handlers <=> clients[c].connected

\* two accounts: the first failed to connect, the second is subscribed
C16_Witness ==
    /\ fleet.pc = "start" /\ fleet.todo = <<>>
    /\ Len(fleet.started) = 2
    /\ ~clients[fleet.started[1]].connected /\ ~clients[fleet.started[1]].handlers
    /\ clients[fleet.started[2]].connected /\ clients[fleet.started[2]].handlers

\* C19 as stated: when the re-read finds the mapping of the file that
\* equals the route's (source, destination), the route's settings are
\* those of that mapping alone: its fields and no others, the filter built
\* from it, enabled by default.
C19_UpdatedRouteIsFresh ==
    (Handled /\ task.read # 0
        /\ MatchIndex(Load(task.read).mappings, task.before) # 0) =>
        LET new_mapping ==
                Load(task.read).mappings[
                    MatchIndex(Load(task.read).mappings, task.before)]
        IN /\ DOMAIN task.used = DOMAIN new_mapping \cup {"filter"}
           /\ \A k \in DOMAIN new_mapping : task.used[k] = new_mapping[k]
           /\ ~MessageFilterRaises(new_mapping)
                 => task.used["filter"] = MessageFilter(new_mapping)
           /\ RouteEnabled(task.used) = Get(new_mapping, "enabled", TRUE)

----------------------------------------------------------------------------
(* Properties of the sessions side by side (FanSpec) *)

\* the account whose handler takes the step
Stepping == IF task'.pc = "idle" THEN task.acct ELSE task'.acct

\* C21: a step of one session's handler (the re-read and in-place update of
\* its route, its sends, its return) leaves the routes, the filters and the
\* client of every other account, every connection and subscription, the
\* accounts held and the coordinator's configuration as they were.
C21_NoRouteShared ==
    [][task' # task =>
          /\ \A a \in 1..Len(objs) : a # Stepping => objs'[a] = objs[a]
          /\ Len(objs') = Len(objs)
          /\ clients' = clients /\ accounts' = accounts /\ config' = config]_vars

\* two sessions held and running; the handler of one has replaced the
\* settings of its route, the other still holds those it was built with
C21_Witness ==
    /\ Len(accounts) = 2
    /\ task.pc = "done" /\ task.used # task.before
    /\ objs[task.acct].mappings[task.route] = task.used
    /\ \E a \in 1..Len(objs) :
          /\ a # task.acct
          /\ Running(a)
          /\ objs[a].mappings[task.route] = task.before

EventComplete == event.pc = "open" /\ event.waiting = {} /\ task.pc = "idle"

\* the sessions the event was dispatched to, one client each after start-up
ObservingSessions == {clients[c].acct : c \in event.observers}

\* the route of the event as an observing session holds it
EventRoute(a) == objs[a].mappings[event.route]

PassesRoute(a) ==
    /\ RouteEnabled(EventRoute(a))
    /\ ~should_forward_raises(EventRoute(a)["filter"], event.message)
    /\ should_forward(EventRoute(a)["filter"], event.message)

\* the observing sessions whose own route lets the event through
Forwarding == {a \in ObservingSessions : PassesRoute(a)}

\* C23: every account held has a route for every mapping of the
\* configuration, in order; and of an event dispatched to k running
\* sessions, every session whose route is enabled and whose filter accepts
\* the message makes one first send to the route's destination, the others
\* none: k first sends when the message passes in all k sessions, and at
\* most one delivery for each.
C23_EverySessionForwards ==
    /\ \A i \in 1..Len(accounts) :
          LET routes == objs[accounts[i]].mappings
              mappings == Load(config).mappings
          IN /\ Len(routes) = Len(mappings)
             /\ \A j \in 1..Len(mappings) :
                   /\ routes[j]["source"] = ToInt(mappings[j]["source"])
                   /\ routes[j]["destination"] = ToInt(mappings[j]["destination"])
    /\ EventComplete =>
          /\ Cardinality(ObservingSessions) = Cardinality(event.observers)
          /\ event.passed = Cardinality(Forwarding)
          /\ (\A a \in ObservingSessions :
                 ~NormalizeRaises(EventRoute(a)["destination"]))
                => /\ event.attempts = Cardinality(Forwarding)
                   /\ event.delivered <= event.attempts
                   /\ Forwarding = ObservingSessions
                         => event.attempts = Cardinality(event.observers)

\* one event, two sessions, two sends, two deliveries
C23_Witness ==
    /\ EventComplete
    /\ Cardinality(ObservingSessions) = 2
    /\ Forwarding = ObservingSessions
    /\ event.attempts = 2 /\ event.delivered = 2

----------------------------------------------------------------------------
(* Properties of two reloads side by side (RaceSpec) *)

BothReturned == \A r \in Tasks : race.t[r].pc = "done"

\* no file that could not be loaded, no connect and no disconnect that
\* failed: whatever went wrong is the tasks' own doing
NothingFailed == \A r \in Tasks : race.t[r].failed \in {"none", "iteration"}

Held == {accounts[i] : i \in 1..Len(accounts)}

\* the map holds one account per session of the configuration, each with a
\* connected client that has its handlers
OneStartedPerSession ==
    /\ Len(accounts) = Len(Load(config).sessions)
    /\ \A i \in 1..Len(accounts) :
          LET a == objs[accounts[i]] IN
          /\ a.session_name = Load(config).sessions[i]
          /\ a.client # 0
          /\ clients[a.client].connected /\ clients[a.client].handlers

\* an account dropped from the map holds no connected client with handlers
NoneLeftRunning ==
    \A a \in (1..Len(objs)) \ Held :
        objs[a].client # 0 =>
            ~(clients[objs[a].client].connected /\ clients[objs[a].client].handlers)

\* no account was given a client twice
NoneStartedTwice ==
    \A a \in 1..Len(objs) :
        Cardinality({c \in 1..Len(clients) : clients[c].acct = a}) <= 1

\* C22: two reload_config tasks, no step of which failed, both returned:
\* the map holds one started session per configured session name, no
\* account dropped from the map still holds a connected client with
\* handlers, and no account was started twice, however the two took turns
\* at their awaits.
C22_ReloadsInterleaveSafely ==
    (BothReturned /\ NothingFailed) =>
        OneStartedPerSession /\ NoneLeftRunning /\ NoneStartedTwice

====
